---- MODULE Spec2Model ----
(***************************************************************************)
(* A model of the flatten-dict benchmark: the sample data generator        *)
(* (main.generate_sample_data), the flattening candidates of main.py and   *)
(* compare_loops.py, the benchmark decorator, and the two sweep drivers.   *)
(*                                                                         *)
(* Python values are tagged records [t |-> <type>, v |-> <payload>]:       *)
(*   int, str, bool, None  : the payload is the value (None carries 0);    *)
(*   float                 : the payload is the value in hundredths        *)
(*                           (round(x, 2) keeps exactly two decimals);     *)
(*   dict                  : the payload is a function from key strings;   *)
(*   list                  : the payload is a sequence.                    *)
(* Insertion order of a dict is not modelled: rows are compared as sets of *)
(* (key, value) pairs.                                                     *)
(***************************************************************************)
EXTENDS Integers, Sequences, FiniteSets, TLC

\* ------------------------------------------------------------------------
\* Bounds of the model.
\* ------------------------------------------------------------------------
\* generate_sample_data is called with num_players in -MaxNeg .. MaxPlayers.
MaxPlayers == 17
MaxNeg == 2
\* Calls of a candidate on one input object.
MaxCalls == 2
\* Invocations of wrapped functions by one caller of the decorator.
MaxInvocations == 3
\* Steps a wrapped function takes, each one tick of the clock, and the
\* levels of traced memory a step can observe (1 .. MaxAlloc).
MaxSteps == 2
MaxAlloc == 2

\* ------------------------------------------------------------------------
\* Python values.
\* ------------------------------------------------------------------------
IntV(n) == [t |-> "int", v |-> n]
StrV(s) == [t |-> "str", v |-> s]
BoolV(b) == [t |-> "bool", v |-> b]
FloatV(h) == [t |-> "float", v |-> h]
DictV(d) == [t |-> "dict", v |-> d]
ListV(s) == [t |-> "list", v |-> s]
NoneV == [t |-> "None", v |-> 0]
EmptyDict == DictV(<<>>)
EmptyList == ListV(<<>>)

\* isinstance(v, MutableMapping)
IsMapping(x) == x.t = "dict"

\* d.get(k, default) on a dict
Get(d, k, default) == IF k \in DOMAIN d.v THEN d.v[k] ELSE default

\* the dict left by d.pop(k, default) (the popped value is Get(d, k, default))
Popped(d, k) == DictV([x \in (DOMAIN d.v) \ {k} |-> d.v[x]])

\* the dict left by d.update(other), and {**d, **other}: other's keys win
Updated(d, other) == DictV(other.v @@ d.v)

\* iterating a value with `for player in player_list`: the elements of a
\* list; the only mapping the model iterates is the empty one (no keys).
Iter(x) == IF x.t = "list" THEN x.v ELSE <<>>

\* ------------------------------------------------------------------------
\* main.generate_sample_data
\* ------------------------------------------------------------------------
\* Mutant of Position: the Forward range ends one player early.
PositionShortForwards(i) ==
    IF 1 <= i /\ i < 8 THEN "Forward"
    ELSE IF 9 <= i /\ i <= 15 THEN "Back"
    ELSE "Substitute"

Position(i) ==
    IF 1 <= i /\ i <= 8 THEN "Forward"
    ELSE IF 9 <= i /\ i <= 15 THEN "Back"
    ELSE "Substitute"

MatchStats(i) ==
    [ points |-> IntV((i % 3) * 5),
      tries |-> IntV(i % 3),
      turnovers_conceded |-> IntV(i % 4),
      offload |-> IntV(i % 5),
      dominant_tackles |-> IntV(i % 10),
      missed_tackles |-> IntV(i % 5),
      tackle_success |-> FloatV(85 + (i % 15)),
      tackle_try_saver |-> IntV(i % 2),
      tackle_turnover |-> IntV(i % 3),
      penalty_goals |-> IntV(i % 2),
      missed_penalty_goals |-> IntV(i % 2),
      conversion_goals |-> IntV(i % 4),
      missed_conversion_goals |-> IntV(i % 4),
      drop_goals_converted |-> IntV(i % 1),
      drop_goal_missed |-> IntV(i % 2),
      runs |-> IntV((i % 20) + 5),
      metres |-> IntV(((i % 20) + 5) * 8),
      clean_breaks |-> IntV(i % 4),
      defenders_beaten |-> IntV(i % 6),
      try_assists |-> IntV(i % 2),
      passes |-> IntV((i % 30) + 10),
      bad_passes |-> IntV(i % 5),
      rucks_won |-> IntV(i % 15),
      rucks_lost |-> IntV(i % 3),
      lineouts_won |-> IntV(i % 4),
      penalties_conceded |-> IntV(i % 3) ]

\* the substitute flag of player i
IsSubstitute(i) == i > 15

Player(i) ==
    DictV([ player_id |-> IntV(i),
            name |-> StrV("Player " \o ToString(i)),
            position |-> StrV(Position(i)),
            substitute |-> BoolV(IsSubstitute(i)),
            match_stats |-> DictV(MatchStats(i)) ])

\* Mutant of PlayerRange: range(1, abs(num_players) + 1).
PlayerRangeAbs(num_players) ==
    1 .. (IF num_players < 0 THEN 0 - num_players ELSE num_players)

\* range(1, num_players + 1): empty when num_players < 1
PlayerRange(num_players) == 1 .. num_players

\* The call's outcome: the exception it raises ("" when it returns) and the
\* value it returns.  The function holds no raise statement and no operation
\* that fails on an integer argument.
generate_sample_data(num_players) ==
    [ raised |-> "",
      value |->
        DictV([ match_id |-> IntV(12345),
                date |-> StrV("2025-07-27"),
                venue |-> StrV("Small Mem Stadium"),
                home |-> DictV([ team_id |-> IntV(101),
                                 team_name |-> StrV("The Bloody Ingestors"),
                                 teamsheet |->
                                   ListV([i \in PlayerRange(num_players) |-> Player(i)]) ]),
                away |-> EmptyDict ]) ]

\* ------------------------------------------------------------------------
\* The flattening candidates.  A call's outcome is [rows, players]: the list
\* it returns and the player objects of the input's teamsheet as the call
\* leaves them (a candidate that mutates its input changes them in place).
\* ------------------------------------------------------------------------
\* match_details.get('home', {}).get('teamsheet', [])
player_list(match_details) ==
    Iter(Get(Get(match_details, "home", EmptyDict), "teamsheet", EmptyList))

\* the input object once its players have been mutated in place: the
\* defaults of .get are fresh objects, not parts of the input
SetPlayers(match_details, players) ==
    IF /\ "home" \in DOMAIN match_details.v
       /\ "teamsheet" \in DOMAIN match_details.v["home"].v
       /\ match_details.v["home"].v["teamsheet"].t = "list"
    THEN [match_details EXCEPT !.v["home"].v["teamsheet"].v = players]
    ELSE match_details

\* the keys the rows of manual_flatten and unpack_operator_flatten copy
IdentityKeys == {"player_id", "name", "position", "substitute"}

\* Mutant of ManualStatKeys: one key of the hand-written list forgotten.
ManualStatKeysForgotten ==
    { "points", "tries", "turnovers_conceded", "offload", "dominant_tackles",
      "missed_tackles", "tackle_success", "tackle_try_saver", "tackle_turnover",
      "penalty_goals", "missed_penalty_goals", "conversion_goals",
      "missed_conversion_goals", "drop_goals_converted", "drop_goal_missed",
      "runs", "metres", "clean_breaks", "defenders_beaten", "try_assists",
      "passes", "bad_passes", "rucks_won", "lineouts_won",
      "penalties_conceded" }

\* the match_stats keys manual_flatten names one by one
ManualStatKeys ==
    { "points", "tries", "turnovers_conceded", "offload", "dominant_tackles",
      "missed_tackles", "tackle_success", "tackle_try_saver", "tackle_turnover",
      "penalty_goals", "missed_penalty_goals", "conversion_goals",
      "missed_conversion_goals", "drop_goals_converted", "drop_goal_missed",
      "runs", "metres", "clean_breaks", "defenders_beaten", "try_assists",
      "passes", "bad_passes", "rucks_won", "rucks_lost", "lineouts_won",
      "penalties_conceded" }

ManualRow(player) ==
    DictV([k \in IdentityKeys \cup ManualStatKeys |->
             IF k \in IdentityKeys
             THEN Get(player, k, NoneV)
             ELSE Get(Get(player, "match_stats", EmptyDict), k, NoneV)])

manual_flatten(match_details) ==
    LET pl == player_list(match_details)
    IN  [ rows |-> [p \in DOMAIN pl |-> ManualRow(pl[p])], players |-> pl ]

UnpackRow(player) ==
    Updated(DictV([k \in IdentityKeys |-> Get(player, k, NoneV)]),
            Get(player, "match_stats", EmptyDict))

unpack_operator_flatten(match_details) ==
    LET pl == player_list(match_details)
    IN  [ rows |-> [p \in DOMAIN pl |-> UnpackRow(pl[p])], players |-> pl ]

\* generator_flatten.flatten_gen, collected by dict(): the pairs of d with
\* nested mappings replaced by their pairs under parent_key + sep + k.  d is
\* the payload of a dict; a later pair with an equal key wins.
RECURSIVE flatten_gen(_, _, _)
flatten_gen(d, parent_key, sep) ==
    IF DOMAIN d = {} THEN <<>>
    ELSE LET k == CHOOSE x \in DOMAIN d : TRUE
             new_key == IF parent_key # "" THEN parent_key \o sep \o k ELSE k
             here == IF IsMapping(d[k])
                     THEN flatten_gen(d[k].v, new_key, sep)
                     ELSE new_key :> d[k]
         IN  here @@ flatten_gen([x \in (DOMAIN d) \ {k} |-> d[x]], parent_key, sep)

flatten_dict(d, parent_key, sep) == DictV(flatten_gen(d.v, parent_key, sep))

\* the filter of generator_flatten's comprehension
HasStatsMapping(player) ==
    "match_stats" \in DOMAIN player.v /\ IsMapping(player.v["match_stats"])

GeneratorRow(player) ==
    Updated(Popped(player, "match_stats"),
            flatten_dict(player.v["match_stats"], "", "_"))

generator_flatten(match_details) ==
    LET pl == player_list(match_details)
        kept == SelectSeq(pl, HasStatsMapping)
    IN  [ rows |-> [p \in DOMAIN kept |-> GeneratorRow(kept[p])], players |-> pl ]

\* flatdict.FlatDict(value, delimiter) as a mapping: its keys() are the
\* delimiter-joined paths to the leaves of value, a nested mapping without
\* keys being a leaf itself.
RECURSIVE FlatItems(_, _, _)
FlatItems(d, path, delimiter) ==
    IF DOMAIN d = {} THEN <<>>
    ELSE LET k == CHOOSE x \in DOMAIN d : TRUE
             key == IF path # "" THEN path \o delimiter \o k ELSE k
             here == IF IsMapping(d[k]) /\ DOMAIN d[k].v # {}
                     THEN FlatItems(d[k].v, key, delimiter)
                     ELSE key :> d[k]
         IN  here @@ FlatItems([x \in (DOMAIN d) \ {k} |-> d[x]], path, delimiter)

FlatDict(value, delimiter) == DictV(FlatItems(value.v, "", delimiter))

\* main.flatdict_flatten and compare_loops.flatdict_flatten, one player:
\* player.pop('match_stats', {}), then player.update(FlatDict(...)); the row
\* is the player object itself.
FlatdictPlayer(player) ==
    Updated(Popped(player, "match_stats"),
            FlatDict(Get(player, "match_stats", EmptyDict), "_"))

\* Mutant of flatdict_flatten: the rows are new dicts and the players only
\* lose match_stats.
FlatdictFlattenCopying(match_details) ==
    LET pl == player_list(match_details)
    IN  [ rows |-> [p \in DOMAIN pl |-> FlatdictPlayer(pl[p])],
          players |-> [p \in DOMAIN pl |-> Popped(pl[p], "match_stats")] ]

flatdict_flatten(match_details) ==
    LET pl == player_list(match_details)
        done == [p \in DOMAIN pl |-> FlatdictPlayer(pl[p])]
    IN  [ rows |-> done, players |-> done ]

\* dlt_flatten.match_source.player_stats._get_player_stats
get_player_stats(player) ==
    IF "match_stats" \in DOMAIN player.v
    THEN Updated(Popped(player, "match_stats"), Get(player, "match_stats", EmptyDict))
    ELSE player

\* dlt_flatten: the resource yields the teamsheet, the transformer yields
\* _get_player_stats of each of its players, list() collects them
dlt_flatten(match_details) ==
    LET pl == player_list(match_details)
        done == [p \in DOMAIN pl |-> get_player_stats(pl[p])]
    IN  [ rows |-> done, players |-> done ]

\* compare_loops.flatdict_flatten (the for loop)
loops_flatdict_flatten(match_details) ==
    LET pl == player_list(match_details)
        done == [p \in DOMAIN pl |-> FlatdictPlayer(pl[p])]
    IN  [ rows |-> done, players |-> done ]

\* dict(player, **FlatDict(player.pop('match_stats', {}), delimiter='_')):
\* the pop runs while the keyword arguments are built, before dict() copies
\* the player; the row is a new dict and the player only loses match_stats.
ComprehensionRow(player) ==
    Updated(Popped(player, "match_stats"),
            FlatDict(Get(player, "match_stats", EmptyDict), "_"))

flatdict_flatten_list_comprehension(match_details) ==
    LET pl == player_list(match_details)
    IN  [ rows |-> [p \in DOMAIN pl |-> ComprehensionRow(pl[p])],
          players |-> [p \in DOMAIN pl |-> Popped(pl[p], "match_stats")] ]

flatdict_flatten_gen_comprehension(match_details) ==
    LET pl == player_list(match_details)
    IN  [ rows |-> [p \in DOMAIN pl |-> ComprehensionRow(pl[p])],
          players |-> [p \in DOMAIN pl |-> Popped(pl[p], "match_stats")] ]

\* pandas_flatten: json_normalize(player_list, sep='_') names the nested
\* columns match_stats_<key>, the rename drops that prefix, to_dict gives
\* one dict per player
pandas_flatten(match_details) ==
    LET pl == player_list(match_details)
    IN  [ rows |-> [p \in DOMAIN pl |->
                      Updated(Popped(pl[p], "match_stats"),
                              flatten_dict(Get(pl[p], "match_stats", EmptyDict), "", "_"))],
          players |-> pl ]

\* The candidates whose logic is in the source, by module and name.
MainCandidates ==
    { "main.manual_flatten", "main.unpack_operator_flatten",
      "main.generator_flatten", "main.flatdict_flatten", "main.dlt_flatten" }
LoopsCandidates ==
    { "compare_loops.flatdict_flatten",
      "compare_loops.flatdict_flatten_list_comprehension",
      "compare_loops.flatdict_flatten_gen_comprehension" }
Candidates == MainCandidates \cup LoopsCandidates

\* calling candidate c
Call(c, match_details) ==
    CASE c = "main.manual_flatten" -> manual_flatten(match_details)
      [] c = "main.unpack_operator_flatten" -> unpack_operator_flatten(match_details)
      [] c = "main.generator_flatten" -> generator_flatten(match_details)
      [] c = "main.flatdict_flatten" -> flatdict_flatten(match_details)
      [] c = "main.dlt_flatten" -> dlt_flatten(match_details)
      [] c = "main.pandas_flatten" -> pandas_flatten(match_details)
      [] c = "compare_loops.flatdict_flatten" -> loops_flatdict_flatten(match_details)
      [] c = "compare_loops.flatdict_flatten_list_comprehension" ->
             flatdict_flatten_list_comprehension(match_details)
      [] c = "compare_loops.flatdict_flatten_gen_comprehension" ->
             flatdict_flatten_gen_comprehension(match_details)

\* ------------------------------------------------------------------------
\* tracemalloc, as main.benchmark uses it: [tracing, peak].
\* ------------------------------------------------------------------------
Max(a, b) == IF a >= b THEN a ELSE b

\* tracemalloc.start(): nothing when tracing is already on
tracemalloc_start(tm) ==
    IF tm.tracing THEN tm ELSE [tracing |-> TRUE, peak |-> 0]

\* tracemalloc.stop(): tracing off, the traces and the peak cleared
tracemalloc_stop(tm) == [tracing |-> FALSE, peak |-> 0]

\* the peak of tracemalloc.get_traced_memory(): 0 when not tracing
get_traced_memory(tm) == IF tm.tracing THEN tm.peak ELSE 0

\* traced memory reaching `level` while the interpreter runs
Observe(tm, level) ==
    IF tm.tracing THEN [tm EXCEPT !.peak = Max(@, level)] ELSE tm

\* ------------------------------------------------------------------------
\* main.benchmark
\* ------------------------------------------------------------------------
\* func.__name__ of a candidate "module.name", and of any other function
FunctionName(f) ==
    CASE f \in { "main.flatdict_flatten", "compare_loops.flatdict_flatten" } ->
             "flatdict_flatten"
      [] f = "main.manual_flatten" -> "manual_flatten"
      [] f = "main.unpack_operator_flatten" -> "unpack_operator_flatten"
      [] f = "main.generator_flatten" -> "generator_flatten"
      [] f = "main.dlt_flatten" -> "dlt_flatten"
      [] f = "main.pandas_flatten" -> "pandas_flatten"
      [] f = "compare_loops.flatdict_flatten_list_comprehension" ->
             "flatdict_flatten_list_comprehension"
      [] f = "compare_loops.flatdict_flatten_gen_comprehension" ->
             "flatdict_flatten_gen_comprehension"
      [] OTHER -> f

\* the dict wrapper appends: time in clock ticks, memory as the traced peak
\* (peak / 10**6 is a change of unit)
ResultEntry(f, start_time, end_time, peak) ==
    [ function |-> FunctionName(f),
      time_in_s |-> end_time - start_time,
      memory_in_mb |-> peak ]

\* Mutant of WrapperReturn: the wrapper ends without `return result`.
WrapperReturnsNone(result) == NoneV

\* what wrapper returns to its caller
WrapperReturn(result) == result

\* ------------------------------------------------------------------------
\* State.
\* ------------------------------------------------------------------------
VARIABLES
    \* --- one generated record and the candidates called on it ---
    num_players,     \* the argument of generate_sample_data
    shape,           \* how the candidates' input is derived from the record
    fpc,             \* "off" | "start" | "generated" | "ready"
    gen,             \* the outcome of generate_sample_data(num_players)
    match_details,   \* the input object handed to the candidates
    calls,           \* the calls made on match_details: <<[fn, rows], ...>>
    \* --- the decorator main.benchmark ---
    tracemalloc,     \* [tracing, peak]: the tracemalloc module's state
    results_list,    \* main.results_list
    wpc,             \* wrapper's position: "idle" | "in_func" | "after_func"
    wfunc,           \* the function the running wrapper wraps
    elapsed,         \* clock ticks since wrapper read start_time
    result,          \* wrapper's local `result`
    returned,        \* what the last completed wrapper call returned
    invocations,     \* wrapper calls made so far
    \* history of the decorator's calls, kept for the claims
    func_value,      \* what the wrapped function returned in the last call
    window_max,      \* the highest level observed since wrapper was entered
    window_log,      \* window_max of each call that appended to results_list
    \* --- a script run as the entry program ---
    prog,                \* "none" | "main" | "compare_loops"
    spc,                 \* "off" | "loop" | "run" | "sweep" | "built" | "print" |
                         \* "done" | "crashed"
    idx,                 \* how many entries of player_counts the loop has taken
    k,                   \* run_and_compare: the next call of the sweep
    match_data,          \* the loop's match_data, run_and_compare's `data`
    loops_results_list,  \* compare_loops.results_list
    invoked,             \* history: the candidates invoked in the current sweep
    df_results,          \* the table run_and_compare built
    all_results_dfs,     \* the loop's list of tables
    final_comparison_df, \* the concatenated table
    error                \* the exception that ended the program ("" for none)

flatVars == <<num_players, shape, fpc, gen, match_details, calls>>
benchVars == <<tracemalloc, results_list, wpc, wfunc, elapsed, result, returned,
               invocations, func_value, window_max, window_log>>
sweepVars == <<prog, spc, idx, k, match_data, loops_results_list, invoked,
               df_results, all_results_dfs, final_comparison_df, error>>
vars == <<flatVars, benchVars, sweepVars>>

\* a pandas DataFrame built from a list of dicts: the columns are the keys
\* of the dicts, so a frame built from [] has none
DataFrame(rows) ==
    [ columns |-> UNION { DOMAIN rows[i] : i \in DOMAIN rows }, rows |-> rows ]

\* no script running
SweepOff ==
    /\ prog = "none"
    /\ spc = "off"
    /\ idx = 0
    /\ k = 0
    /\ match_data = NoneV
    /\ loops_results_list = <<>>
    /\ invoked = <<>>
    /\ df_results = DataFrame(<<>>)
    /\ all_results_dfs = <<>>
    /\ final_comparison_df = DataFrame(<<>>)
    /\ error = ""

\* the decorator before any call
BenchIdle ==
    /\ tracemalloc = [tracing |-> FALSE, peak |-> 0]
    /\ results_list = <<>>
    /\ wpc = "idle"
    /\ wfunc = ""
    /\ elapsed = 0
    /\ result = NoneV
    /\ returned = NoneV
    /\ invocations = 0
    /\ func_value = NoneV
    /\ window_max = 0
    /\ window_log = <<>>

\* no record generated, no candidate called
FlatOff ==
    /\ num_players = 0
    /\ shape = "generated"
    /\ fpc = "off"
    /\ gen = [raised |-> "", value |-> NoneV]
    /\ match_details = NoneV
    /\ calls = <<>>

\* ------------------------------------------------------------------------
\* Inputs of the candidates: the generated record, and the record with an
\* expected nested field absent or present as an empty mapping.
\* ------------------------------------------------------------------------
AbsentShapes == {"no_home", "no_teamsheet", "no_match_stats"}
EmptyShapes == {"empty_home", "empty_teamsheet", "empty_match_stats"}
Shapes == {"generated"} \cup AbsentShapes \cup EmptyShapes

\* the teamsheet with the first player's match_stats removed / emptied
WithoutStats(players) ==
    [p \in DOMAIN players |->
       IF p = 1 THEN Popped(players[p], "match_stats") ELSE players[p]]
WithEmptyStats(players) ==
    [p \in DOMAIN players |->
       IF p = 1 THEN Updated(players[p], DictV([match_stats |-> EmptyDict]))
       ELSE players[p]]

Shaped(record, sh) ==
    CASE sh = "generated" -> record
      [] sh = "no_home" -> Popped(record, "home")
      [] sh = "empty_home" -> Updated(record, DictV([home |-> EmptyDict]))
      [] sh = "no_teamsheet" ->
            [record EXCEPT !.v["home"] = Popped(record.v["home"], "teamsheet")]
      [] sh = "empty_teamsheet" ->
            [record EXCEPT !.v["home"].v["teamsheet"] = EmptyDict]
      [] sh = "no_match_stats" ->
            SetPlayers(record, WithoutStats(player_list(record)))
      [] sh = "empty_match_stats" ->
            SetPlayers(record, WithEmptyStats(player_list(record)))

\* the empty-mapping counterpart of an absent-field shape
EmptyOf(sh) ==
    CASE sh = "no_home" -> "empty_home"
      [] sh = "no_teamsheet" -> "empty_teamsheet"
      [] sh = "no_match_stats" -> "empty_match_stats"

\* ------------------------------------------------------------------------
\* Specification FlatSpec: generate_sample_data(num_players), then a
\* candidate called on the (shaped) record, once or repeatedly.
\* ------------------------------------------------------------------------
FlatInit ==
    /\ num_players \in (0 - MaxNeg) .. MaxPlayers
    /\ shape \in Shapes
    /\ (shape # "generated" => num_players >= 1)
    /\ fpc = "start"
    /\ gen = [raised |-> "", value |-> NoneV]
    /\ match_details = NoneV
    /\ calls = <<>>
    /\ BenchIdle
    /\ SweepOff

\* match_data = generate_sample_data(num_players=num)
Generate ==
    /\ fpc = "start"
    /\ gen' = generate_sample_data(num_players)
    /\ fpc' = "generated"
    /\ UNCHANGED <<num_players, shape, match_details, calls, benchVars, sweepVars>>

\* the input of the candidates: a record generated by a further call with
\* the same argument, shaped
Prepare ==
    /\ fpc = "generated"
    /\ gen.raised = ""
    /\ LET again == generate_sample_data(num_players)
       IN  /\ again.raised = ""
           /\ match_details' = Shaped(again.value, shape)
    /\ fpc' = "ready"
    /\ UNCHANGED <<num_players, shape, gen, calls, benchVars, sweepVars>>

\* candidate c called on match_details; a further call repeats the candidate
\* on the same object
CallCandidate(c) ==
    /\ fpc = "ready"
    /\ Len(calls) < MaxCalls
    /\ calls # <<>> => calls[1].fn = c
    /\ LET r == Call(c, match_details)
       IN  /\ calls' = Append(calls, [fn |-> c, rows |-> r.rows])
           /\ match_details' = SetPlayers(match_details, r.players)
    /\ UNCHANGED <<num_players, shape, fpc, gen, benchVars, sweepVars>>

FlatNext ==
    \/ Generate
    \/ Prepare
    \/ \E c \in Candidates : CallCandidate(c)

FlatSpec == FlatInit /\ [][FlatNext]_vars

\* ------------------------------------------------------------------------
\* Specification BenchSpec: a caller invoking benchmark-wrapped functions
\* one after the other.  A wrapped function takes steps, then returns a
\* value or raises; an exception leaves wrapper at the call (no try/finally)
\* and reaches the caller, which may go on to the next invocation.
\* ------------------------------------------------------------------------
\* the functions wrapped, and the values they return
WrappedFuncs == {"f", "g"}
ReturnValues == { NoneV, IntV(1), ListV(<<>>), ListV(<<EmptyDict>>) }

BenchInit == FlatOff /\ BenchIdle /\ SweepOff

\* wrapper, up to the call of func: tracemalloc.start(), start_time
WrapperEnter(f) ==
    /\ wpc = "idle"
    /\ invocations < MaxInvocations
    /\ tracemalloc' = tracemalloc_start(tracemalloc)
    /\ wpc' = "in_func"
    /\ wfunc' = f
    /\ elapsed' = 0
    /\ window_max' = 0
    /\ invocations' = invocations + 1
    /\ UNCHANGED <<results_list, result, returned, func_value, window_log, flatVars, sweepVars>>

\* func at work: one tick of the clock, traced memory at `level`
FuncStep(level) ==
    /\ wpc = "in_func"
    /\ elapsed < MaxSteps
    /\ elapsed' = elapsed + 1
    /\ tracemalloc' = Observe(tracemalloc, level)
    /\ window_max' = Max(window_max, level)
    /\ UNCHANGED <<results_list, wpc, wfunc, result, returned, invocations,
                   func_value, window_log, flatVars, sweepVars>>

\* result = func(*args, **kwargs), func returning v
FuncReturn(v) ==
    /\ wpc = "in_func"
    /\ result' = v
    /\ func_value' = v
    /\ wpc' = "after_func"
    /\ UNCHANGED <<tracemalloc, results_list, wfunc, elapsed, returned, invocations,
                   window_max, window_log, flatVars, sweepVars>>

\* func raising: the exception leaves wrapper at the call
FuncRaise ==
    /\ wpc = "in_func"
    /\ wpc' = "idle"
    /\ wfunc' = ""
    /\ UNCHANGED <<tracemalloc, results_list, elapsed, result, returned, invocations,
                   func_value, window_max, window_log, flatVars, sweepVars>>

\* wrapper, after the call: end_time, get_traced_memory(), stop(), the
\* append to results_list, return result
WrapperExit ==
    /\ wpc = "after_func"
    /\ results_list' = Append(results_list,
                              ResultEntry(wfunc, 0, elapsed, get_traced_memory(tracemalloc)))
    /\ tracemalloc' = tracemalloc_stop(tracemalloc)
    /\ returned' = WrapperReturn(result)
    /\ window_log' = Append(window_log, window_max)
    /\ wpc' = "idle"
    /\ wfunc' = ""
    /\ UNCHANGED <<elapsed, result, invocations, func_value, window_max, flatVars, sweepVars>>

\* the caller allocating between two invocations: traced when tracing is on
CallerAlloc(level) ==
    /\ wpc = "idle"
    /\ tracemalloc.tracing
    /\ tracemalloc' = Observe(tracemalloc, level)
    /\ UNCHANGED <<results_list, wpc, wfunc, elapsed, result, returned, invocations,
                   func_value, window_max, window_log, flatVars, sweepVars>>

BenchNext ==
    \/ \E f \in WrappedFuncs : WrapperEnter(f)
    \/ \E level \in 1 .. MaxAlloc : FuncStep(level)
    \/ \E v \in ReturnValues : FuncReturn(v)
    \/ FuncRaise
    \/ WrapperExit
    \/ \E level \in 1 .. MaxAlloc : CallerAlloc(level)

BenchSpec == BenchInit /\ [][BenchNext]_vars

\* ------------------------------------------------------------------------
\* Specification SweepSpec: main.py or compare_loops.py run as the entry
\* program: the loop over player_counts, run_and_compare, the aggregation.
\* ------------------------------------------------------------------------
\* The input sizes of the loop.  Both scripts list 23, 100, 1000, 10000,
\* 100000; the model runs the loop over the first two.
player_counts == <<23, 100>>

\* the names bound in main.py's module namespace when run_and_compare runs:
\* its imports and its top-level definitions
MainModuleNames ==
    { "copy", "time", "tracemalloc", "wraps", "json", "gc", "dlt", "pd", "FlatDict",
      "generate_sample_data", "results_list", "benchmark", "manual_flatten",
      "unpack_operator_flatten", "generator_flatten", "pandas_flatten",
      "flatdict_flatten", "dlt_flatten", "run_and_compare" }

\* the wrapped functions run_and_compare calls, in order
SweepOrder(program) ==
    IF program = "main"
    THEN << "main.pandas_flatten", "main.manual_flatten", "main.generator_flatten",
            "main.unpack_operator_flatten", "main.flatdict_flatten", "main.dlt_flatten" >>
    ELSE << "compare_loops.flatdict_flatten",
            "compare_loops.flatdict_flatten_list_comprehension",
            "compare_loops.flatdict_flatten_gen_comprehension" >>

\* the results_list run_and_compare resets and builds its table from: the
\* global of the module that defines run_and_compare
OwnResultsList == IF prog = "main" THEN results_list ELSE loops_results_list

\* One call wrapper(input) of main.benchmark, func taking `ticks` steps with
\* traced memory reaching `level`: the tracemalloc state and main.results_list
\* it leaves, the value it returns, the players of its input afterwards.
WrappedCall(f, input, ticks, level) ==
    LET started == tracemalloc_start(tracemalloc)
        out == Call(f, input)
        traced == IF ticks > 0 THEN Observe(started, level) ELSE started
    IN  [ tracemalloc |-> tracemalloc_stop(traced),
          results_list |-> Append(results_list,
                                  ResultEntry(f, 0, ticks, get_traced_memory(traced))),
          returned |-> WrapperReturn(out.rows),
          players |-> out.players ]

\* pd.concat(frames, ignore_index=True): the rows of the frames, in order
RECURSIVE ConcatRows(_)
ConcatRows(frames) ==
    IF frames = <<>> THEN <<>>
    ELSE Head(frames).rows \o ConcatRows(Tail(frames))

SweepInit ==
    /\ FlatOff
    /\ BenchIdle
    /\ prog \in {"main", "compare_loops"}
    /\ spc = "loop"
    /\ idx = 0
    /\ k = 0
    /\ match_data = NoneV
    /\ loops_results_list = <<>>
    /\ invoked = <<>>
    /\ df_results = DataFrame(<<>>)
    /\ all_results_dfs = <<>>
    /\ final_comparison_df = DataFrame(<<>>)
    /\ error = ""

\* `for num in player_counts:` taking the next size and generating
\* match_data, or, the list exhausted, going on to pd.concat and the column
\* selection
Loop ==
    /\ spc = "loop"
    /\ IF idx < Len(player_counts)
       THEN /\ idx' = idx + 1
            /\ match_data' = generate_sample_data(player_counts[idx + 1]).value
            /\ spc' = "run"
            /\ UNCHANGED <<final_comparison_df, error>>
       ELSE LET all == [ columns |-> UNION { all_results_dfs[i].columns :
                                               i \in DOMAIN all_results_dfs },
                         rows |-> ConcatRows(all_results_dfs) ]
                wanted == {"num_players", "function", "time_in_s", "memory_in_mb"}
            IN  /\ UNCHANGED <<idx, match_data>>
                /\ IF all_results_dfs # <<>> /\ wanted \subseteq all.columns
                   THEN /\ final_comparison_df' = all
                        /\ spc' = "done"
                        /\ UNCHANGED error
                   ELSE /\ error' = IF all_results_dfs = <<>> THEN "ValueError" ELSE "KeyError"
                        /\ spc' = "crashed"
                        /\ UNCHANGED final_comparison_df
    /\ UNCHANGED <<prog, k, loops_results_list, invoked, df_results, all_results_dfs,
                   flatVars, benchVars>>

\* run_and_compare entered: `global results_list; results_list = []` rebinds
\* the results_list of the module run_and_compare is defined in
RunReset ==
    /\ spc = "run"
    /\ IF prog = "main"
       THEN results_list' = <<>> /\ UNCHANGED loops_results_list
       ELSE loops_results_list' = <<>> /\ UNCHANGED results_list
    /\ invoked' = <<>>
    /\ k' = 1
    /\ spc' = "sweep"
    /\ UNCHANGED <<prog, idx, match_data, df_results, all_results_dfs,
                   final_comparison_df, error, flatVars, tracemalloc, wpc, wfunc,
                   elapsed, result, returned, invocations, func_value, window_max,
                   window_log>>

\* the k-th call of the sweep.  main.run_and_compare first evaluates
\* cp.deepcopy(data) and calls the function on the copy; the name lookup
\* raises NameError when the module binds no `cp`.  compare_loops'
\* run_and_compare calls the function on data itself.
SweepCall(ticks, level) ==
    /\ spc = "sweep"
    /\ k <= Len(SweepOrder(prog))
    /\ IF prog = "main" /\ "cp" \notin MainModuleNames
       THEN /\ error' = "NameError"
            /\ spc' = "crashed"
            /\ UNCHANGED <<k, match_data, invoked, tracemalloc, results_list, returned>>
       ELSE LET f == SweepOrder(prog)[k]
                w == WrappedCall(f, match_data, ticks, level)
            IN  /\ tracemalloc' = w.tracemalloc
                /\ results_list' = w.results_list
                /\ returned' = w.returned
                /\ match_data' = IF prog = "main" THEN match_data
                                 ELSE SetPlayers(match_data, w.players)
                /\ invoked' = Append(invoked, f)
                /\ k' = k + 1
                /\ UNCHANGED <<spc, error>>
    /\ UNCHANGED <<prog, idx, loops_results_list, df_results, all_results_dfs,
                   final_comparison_df, flatVars, wpc, wfunc, elapsed, result,
                   invocations, func_value, window_max, window_log>>

\* df_results = pd.DataFrame(results_list); return df_results
BuildTable ==
    /\ spc = "sweep"
    /\ k > Len(SweepOrder(prog))
    /\ df_results' = DataFrame(OwnResultsList)
    /\ spc' = "built"
    /\ UNCHANGED <<prog, idx, k, match_data, loops_results_list, invoked,
                   all_results_dfs, final_comparison_df, error, flatVars, benchVars>>

\* results_df_for_num['num_players'] = num; all_results_dfs.append(...)
TagAndAppend ==
    /\ spc = "built"
    /\ LET num == player_counts[idx]
           tagged == [ columns |-> df_results.columns \cup {"num_players"},
                       rows |-> [i \in DOMAIN df_results.rows |->
                                   ("num_players" :> num) @@ df_results.rows[i]] ]
       IN  /\ df_results' = tagged
           /\ all_results_dfs' = Append(all_results_dfs, tagged)
    /\ spc' = "print"
    /\ UNCHANGED <<prog, idx, k, match_data, loops_results_list, invoked,
                   final_comparison_df, error, flatVars, benchVars>>

\* print(results_df_for_num.sort_values(by='memory_in_mb').to_string()):
\* sort_values raises KeyError for a column the frame does not have
PrintSorted ==
    /\ spc = "print"
    /\ IF "memory_in_mb" \in df_results.columns
       THEN spc' = "loop" /\ UNCHANGED error
       ELSE spc' = "crashed" /\ error' = "KeyError"
    /\ UNCHANGED <<prog, idx, k, match_data, loops_results_list, invoked, df_results,
                   all_results_dfs, final_comparison_df, flatVars, benchVars>>

SweepNext ==
    \/ Loop
    \/ RunReset
    \/ \E ticks \in 0 .. MaxSteps, level \in 1 .. MaxAlloc : SweepCall(ticks, level)
    \/ BuildTable
    \/ TagAndAppend
    \/ PrintSorted

SweepSpec == SweepInit /\ [][SweepNext]_vars

\* ========================================================================
\* Claims checked under FlatSpec.
\* ========================================================================
\* the teamsheet of the record generate_sample_data returned
GenTeamsheet == gen.value.v["home"].v["teamsheet"].v

\* the first call was made by candidate c on a record as generated
FirstCallOnGenerated(c) ==
    /\ shape = "generated"
    /\ num_players >= 1
    /\ Len(calls) >= 1
    /\ calls[1].fn = c

\* C4: on its own copy of generate_sample_data(n), n >= 1, each candidate
\* of main.py whose logic is in the source returns n rows, and its rows are,
\* player by player, the same set of (key, value) pairs as every other
\* candidate's.
C4_CandidatesAgree ==
    \A c \in MainCandidates :
        FirstCallOnGenerated(c) =>
            /\ Len(calls[1].rows) = num_players
            /\ \A d \in MainCandidates : calls[1].rows = Call(d, gen.value).rows

C4_Witness ==
    /\ FirstCallOnGenerated("main.generator_flatten")
    /\ num_players >= 16

\* C5: for n >= 1 the generated teamsheet has exactly n entries with
\* player_id 1..n in order, position Forward for 1..8, Back for 9..15,
\* Substitute above 15, substitute = (i > 15); a second call with the same
\* n returns an equal record.
C5_GeneratedTeamsheet ==
    (fpc # "start" /\ num_players >= 1) =>
        /\ gen.raised = ""
        /\ Len(GenTeamsheet) = num_players
        /\ \A i \in 1 .. num_players :
              /\ GenTeamsheet[i].v["player_id"] = IntV(i)
              /\ (i <= 8 => GenTeamsheet[i].v["position"] = StrV("Forward"))
              /\ (9 <= i /\ i <= 15 => GenTeamsheet[i].v["position"] = StrV("Back"))
              /\ (i > 15 => GenTeamsheet[i].v["position"] = StrV("Substitute"))
              /\ GenTeamsheet[i].v["substitute"] = BoolV(i > 15)
        /\ (fpc = "ready" /\ shape = "generated" /\ calls = <<>>
               => match_details = gen.value)

C5_Witness ==
    /\ fpc = "ready"
    /\ shape = "generated"
    /\ num_players >= 16
    /\ calls = <<>>

\* C8 as stated: for num_players < 0 generate_sample_data fails with an
\* invalid-argument error and returns no record.
C8_NegativeRejected ==
    (fpc # "start" /\ num_players < 0) => gen.raised # ""

\* C8 as amended: for num_players < 0 generate_sample_data raises nothing
\* and returns a record whose home.teamsheet is empty.
C8_NegativeGivesEmptyTeamsheet ==
    (fpc # "start" /\ num_players < 0) =>
        /\ gen.raised = ""
        /\ gen.value.t = "dict"
        /\ GenTeamsheet = <<>>

C8_Witness == fpc = "generated" /\ num_players < 0

\* C9: with an expected nested field absent, each candidate returns the
\* rows it returns when the field is present as an empty mapping, and a
\* player without match_stats still yields a row.
C9_AbsentAsEmpty ==
    \A c \in { "main.manual_flatten", "main.unpack_operator_flatten",
               "main.generator_flatten", "main.flatdict_flatten" } :
        (shape \in AbsentShapes /\ Len(calls) >= 1 /\ calls[1].fn = c) =>
            /\ calls[1].rows = Call(c, Shaped(gen.value, EmptyOf(shape))).rows
            /\ (shape = "no_match_stats" => Len(calls[1].rows) = num_players)

\* the candidates that update the player objects of their input in place
InPlaceCandidates ==
    { "main.flatdict_flatten", "compare_loops.flatdict_flatten", "main.dlt_flatten" }
\* the candidates that pop match_stats and return new dicts
PopOnlyCandidates ==
    { "compare_loops.flatdict_flatten_list_comprehension",
      "compare_loops.flatdict_flatten_gen_comprehension" }

\* C10 as stated: a second run of an in-place candidate on the same input
\* object returns rows that differ from the first run's.
C10_SecondRunDiffers ==
    \A c \in InPlaceCandidates :
        (FirstCallOnGenerated(c) /\ Len(calls) >= 2) => calls[2].rows # calls[1].rows

\* C10 as amended: a second run of flatdict_flatten (main.py, compare_loops.py)
\* or of the dlt pop/update step on the same input object returns rows equal
\* to the first run's; a second run of a compare_loops comprehension variant
\* returns rows that differ, each holding only the player's own keys.
C10_SecondRunSame ==
    /\ \A c \in InPlaceCandidates :
          (FirstCallOnGenerated(c) /\ Len(calls) >= 2) => calls[2].rows = calls[1].rows
    /\ \A c \in PopOnlyCandidates :
          (FirstCallOnGenerated(c) /\ Len(calls) >= 2) =>
              /\ calls[2].rows # calls[1].rows
              /\ \A i \in 1 .. num_players :
                    DOMAIN calls[2].rows[i].v = IdentityKeys

C10_Witness ==
    /\ FirstCallOnGenerated("main.flatdict_flatten")
    /\ Len(calls) = 2

\* ========================================================================
\* Claims checked under BenchSpec.
\* ========================================================================
\* C2: a call of a benchmark-wrapped function that completes returns the
\* value the wrapped function returned, whatever results_list holds.
C2_ReturnUnaffected ==
    (wpc = "idle" /\ results_list # <<>>) => returned = func_value

C2_Witness ==
    /\ wpc = "idle"
    /\ Len(results_list) >= 2
    /\ returned = ListV(<<EmptyDict>>)

\* C3: whether the wrapped functions return or raise, tracing is on exactly
\* while a wrapped call is executing, and the peak recorded for an invocation
\* is the highest level observed inside that invocation's own window.
C3_TracingOnlyInsideCall ==
    /\ tracemalloc.tracing <=> wpc # "idle"
    /\ Len(window_log) = Len(results_list)
    /\ \A i \in 1 .. Len(results_list) :
          results_list[i].memory_in_mb = window_log[i]

\* ========================================================================
\* Claims checked under SweepSpec.
\* ========================================================================
\* the record the loop generated for the current size
FreshRecord == generate_sample_data(player_counts[idx]).value

\* C1: in both sweep drivers the results_list the sweep builds its table
\* from is empty right after the reset and, once the table is built, holds
\* exactly one row per wrapped candidate invoked in the sweep, in order and
\* tagged with the candidate's function name.
C1_OneRowPerCandidate ==
    /\ (spc = "sweep" /\ k = 1) => OwnResultsList = <<>>
    /\ spc = "built" =>
          /\ df_results.rows = OwnResultsList
          /\ Len(OwnResultsList) = Len(invoked)
          /\ \A i \in 1 .. Len(invoked) :
                OwnResultsList[i].function = FunctionName(invoked[i])

\* C6: within a sweep the generated record is never modified: at every call
\* of a candidate, and after the sweep, the caller's record equals the
\* record as generated.
C6_InputNeverModified ==
    (idx >= 1 /\ spc \in {"sweep", "built", "print", "loop", "crashed"}) =>
        match_data = FreshRecord

\* C7: the sweep loop of main.py completes and its final table has twice as
\* many rows as a sweep has candidates, each row's num_players one of the
\* two sizes, as many rows for one size as for the other.
C7_MainSweepCompletes ==
    (prog = "main" /\ spc \in {"done", "crashed"}) =>
        /\ spc = "done"
        /\ error = ""
        /\ Len(final_comparison_df.rows) = 2 * Len(SweepOrder("main"))
        /\ \A n \in {player_counts[1], player_counts[2]} :
              Cardinality({ i \in DOMAIN final_comparison_df.rows :
                              final_comparison_df.rows[i]["num_players"] = n })
                = Len(SweepOrder("main"))

====
